---- MODULE Spec2Model ----
(***************************************************************************)
(* State-machine model of src/app.py (AutoVizCreator): a Streamlit script  *)
(* that is re-run from top to bottom on every user interaction.  One       *)
(* action of the model is one run of the script ("pass") triggered by one  *)
(* user interaction; st.session_state and the widget values survive        *)
(* between passes, everything else is recomputed.                          *)
(*                                                                         *)
(* The model starts after an API key has been supplied (lines 21-31):      *)
(* without one the script stops at line 29 before any state exists.        *)
(***************************************************************************)
EXTENDS Integers, Sequences, FiniteSets, TLC

\* ------------------------------------------------------------------ bounds
\* Most columns in the header line of the CSV text a response carries.
MaxFields == 2

\* --------------------------------------------------------------- constants
\* Python's None (session_state.cleaned_df before / after a failed cleaning).
None == [none |-> TRUE]

\* chart_options, line 122.
chart_options == <<"bar", "line", "scatter", "pie", "area">>

\* SAMPLE_DATA, lines 50-58 (the text itself is never inspected by the script).
SAMPLE_DATA == "Monthly Product Sales - 2025 ..."

\* What a user may turn the text area into by hand: an empty one.  (Any
\* non-empty text is treated by the script as the sample is.)
TypedTexts == {""}

Range(s) == {s[i] : i \in 1..Len(s)}

\* Outcome of a Python expression: a value, or a raised exception.
Returns(v) == [ok |-> TRUE, val |-> v]
Raises(e) == [ok |-> FALSE, exc |-> e]

\* ------------------------------------------------- what the service returns
\* A CSV text is modelled by its shape (the script never looks at the contents
\* of a field): the number of fields of its header line, 0 for a text with no
\* line at all, and what follows the header: no data line ("none"), data lines
\* that fit the table ("rows"), or data lines one of which has more fields
\* than the lines before it allow ("overlong").
CsvTexts ==
    {[header |-> 0, data |-> "none"]}
        \cup {[header |-> n, data |-> d] :
                 n \in 1..MaxFields, d \in {"none", "rows", "overlong"}}

\* A JSON value found under a key of the response object.
Missing == [t |-> "missing"]
Number == [t |-> "number"]
Str(s) == [t |-> "string", s |-> s]

\* The chart tags the service may answer with (any casing, known or unknown).
ChartStrings == {"bar", "PIE", "Donut"}

CsvFields == {Missing, Number} \cup {Str(c) : c \in CsvTexts}
ChartFields == {Missing, Number} \cup {Str(c) : c \in ChartStrings}

\* Outcomes of client.chat.completions.create(...) for the cleaning call,
\* lines 89-94: the call raises, or returns a message content that is not
\* JSON, or a JSON array, or a JSON object with or without the two keys.
CleanResponses ==
    {[t |-> "raise"], [t |-> "text"], [t |-> "array"]}
        \cup {[t |-> "object", csv |-> c, chart |-> h] :
                 c \in CsvFields, h \in ChartFields}

\* Outcomes of the insight call, lines 176-181: raises, or returns a content
\* string, which nothing prevents from being empty.
InsightContents == {"", "- Promote Product B"}
InsightResponses ==
    {[t |-> "raise"]} \cup {[t |-> "content", content |-> c] : c \in InsightContents}

\* -------------------------------------------------------- library functions
\* json.loads(response.choices[0].message.content), line 96.
json_loads(resp) ==
    IF resp.t = "text" THEN Raises("JSONDecodeError") ELSE Returns(resp)

\* ai_output[key], lines 97-98: a list cannot be indexed by a string, a dict
\* raises KeyError for an absent key.
GetItem(ai_output, key) ==
    IF ai_output.t = "array" THEN Raises("TypeError")
    ELSE LET v == IF key = "csv" THEN ai_output.csv ELSE ai_output.chart
         IN  IF v = Missing THEN Raises(IF key = "csv" THEN "KeyError: 'csv'"
                                                       ELSE "KeyError: 'chart'")
             ELSE Returns(v)

\* str.lower(), line 98, on the tags of ChartStrings.
LowerStr(s) ==
    CASE s = "PIE" -> "pie"
      [] s = "Donut" -> "donut"
      [] OTHER -> s

\* Variant of lower: the tag is stored as the service spelled it.
lower_NoFold(v) == IF v.t = "string" THEN Returns(v.s) ELSE Raises("AttributeError")

\* ai_output["chart"].lower(), line 98: a non-string has no lower().
lower(v) == IF v.t = "string" THEN Returns(LowerStr(v.s)) ELSE Raises("AttributeError")

\* pd.read_csv(io.StringIO(v)), line 97.  io.StringIO rejects a non-string.
\* pandas: a text with no line is an EmptyDataError; the first line is the
\* header and gives the columns; a data line with too many fields is a
\* ParserError; shorter lines are padded, so every column has one value per
\* data line.  A table is its columns (named by position) and whether it has
\* any row.
read_csv(v) ==
    IF v.t # "string" THEN Raises("TypeError")
    ELSE IF v.s.header = 0 THEN Raises("EmptyDataError")
    ELSE IF v.s.data = "overlong" THEN Raises("ParserError")
    ELSE Returns([columns |-> [c \in 1..v.s.header |-> c],
                  empty |-> (v.s.data = "none")])

\* ------------------------------------------------------------------- state
VARIABLES
    session_state,  \* st.session_state: cleaned_df, ai_suggestions, suggested_chart
                    \* (and suggestions_for, history: the table whose dump the
                    \* request that produced ai_suggestions was built from)
    raw_data,       \* the text in the sidebar text area, lines 60-70
    widgets,        \* the values of the keyed chart widgets, lines 128-137
    out             \* what the last pass of the script did and displayed

vars == <<session_state, raw_data, widgets, out>>

\* Widget values before the widget has ever been drawn.
NoWidgets == [chart_type |-> "", x_axis |-> 0, y_axis |-> 0, chart_title |-> ""]

\* Titles a user may type over the default one.
TypedTitles == {"My chart"}

\* ------------------------------------------- lines 72-102: Clean & Visualize
\* Line 97: st.session_state.cleaned_df = pd.read_csv(...)
StoreCleanedDf(ss, df) == [ss EXCEPT !.cleaned_df = df]

\* Variant of StoreSuggestedChart: the assignment of line 98 is lost.
StoreSuggestedChart_Skip(ss, chart) == ss

\* Line 98: st.session_state.suggested_chart = ai_output["chart"].lower()
StoreSuggestedChart(ss, chart) == [ss EXCEPT !.suggested_chart = chart]

\* Variant of ResetSuggestions: the suggestions survive a new table.
ResetSuggestions_Skip(ss) == ss

\* Line 99: st.session_state.ai_suggestions = ""
ResetSuggestions(ss) == [ss EXCEPT !.ai_suggestions = "", !.suggestions_for = None]

\* Variant of CleanExcept: the error is shown but the table is not cleared.
CleanExcept_KeepTable(ss) == ss

\* Variant of CleanExcept: the failure resets the whole session to its defaults.
CleanExcept_ResetAll(ss) ==
    [cleaned_df |-> None, ai_suggestions |-> "", suggested_chart |-> "bar",
     suggestions_for |-> None]

\* Lines 100-102: the except branch (the st.error is reported by CleanHandler).
CleanExcept(ss) == [ss EXCEPT !.cleaned_df = None]

\* Lines 77-99, the body of the try, statement by statement: the session as
\* the statements that ran left it, and the exception that ended it, if any.
CleanTry(ss, resp) ==
    IF resp.t = "raise" THEN [ss |-> ss, exc |-> "APIError"]
    ELSE LET ai_output == json_loads(resp) IN
    IF ~ai_output.ok THEN [ss |-> ss, exc |-> ai_output.exc]
    ELSE LET csv == GetItem(ai_output.val, "csv") IN
    IF ~csv.ok THEN [ss |-> ss, exc |-> csv.exc]
    ELSE LET df == read_csv(csv.val) IN
    IF ~df.ok THEN [ss |-> ss, exc |-> df.exc]
    ELSE LET s97 == StoreCleanedDf(ss, df.val)
             chart == GetItem(ai_output.val, "chart") IN
    IF ~chart.ok THEN [ss |-> s97, exc |-> chart.exc]
    ELSE LET low == lower(chart.val) IN
    IF ~low.ok THEN [ss |-> s97, exc |-> low.exc]
    ELSE [ss |-> ResetSuggestions(StoreSuggestedChart(s97, low.val)), exc |-> ""]

\* Variant of CleanHandler: the test of line 73 is missing, the service is
\* called whatever the text area holds.
CleanHandler_NoEmptyGuard(ss, raw, clicked, resp) ==
    IF ~clicked
    THEN [ss |-> ss, sidebar_warning |-> FALSE, clean_error |-> "", calls |-> <<>>]
    ELSE LET r == CleanTry(ss, resp) IN
         [ss |-> IF r.exc = "" THEN r.ss ELSE CleanExcept(r.ss),
          sidebar_warning |-> FALSE,
          clean_error |-> r.exc,
          calls |-> <<"clean">>]

\* Lines 72-102.  clicked: the button returned True in this pass.
CleanHandler(ss, raw, clicked, resp) ==
    IF ~clicked
    THEN [ss |-> ss, sidebar_warning |-> FALSE, clean_error |-> "", calls |-> <<>>]
    ELSE IF raw = ""
    THEN [ss |-> ss, sidebar_warning |-> TRUE, clean_error |-> "", calls |-> <<>>]
    ELSE LET r == CleanTry(ss, resp) IN
         [ss |-> IF r.exc = "" THEN r.ss ELSE CleanExcept(r.ss),
          sidebar_warning |-> FALSE,
          clean_error |-> r.exc,
          calls |-> <<"clean">>]

\* --------------------------------------------- lines 119-139: chart controls
\* Variant of default_index: an unknown tag selects the last option.
default_index_Last(suggested_chart) ==
    IF suggested_chart \in Range(chart_options)
    THEN (CHOOSE i \in 1..Len(chart_options) : chart_options[i] = suggested_chart) - 1
    ELSE Len(chart_options) - 1

\* Lines 123-126: chart_options.index(suggested_chart), 0 on ValueError.
default_index(suggested_chart) ==
    IF suggested_chart \in Range(chart_options)
    THEN (CHOOSE i \in 1..Len(chart_options) : chart_options[i] = suggested_chart) - 1
    ELSE 0

\* A keyed st.radio / st.selectbox: the value the user last chose if the widget
\* holds one that is among its options, else the option at the default index.
WidgetValue(held, options, index) ==
    IF held \in Range(options) THEN held ELSE options[index + 1]

\* Line 132 and line 143: len(df.columns) > 1
TwoDimensional(df) == Len(df.columns) > 1

\* Lines 119-139.
ChartControls(ss, wd) ==
    LET df == ss.cleaned_df
        idx == default_index(ss.suggested_chart)
        selected_chart == WidgetValue(wd.chart_type, chart_options, idx)
    IN  IF TwoDimensional(df)
        THEN LET x_axis == WidgetValue(wd.x_axis, df.columns, 0)
                 y_axis == WidgetValue(wd.y_axis, df.columns, 1)
             IN  [controls |-> {"chart_type", "x_axis", "y_axis", "chart_title"},
                  default_index |-> idx,
                  onecol_warning |-> FALSE,
                  wd |-> [chart_type |-> selected_chart, x_axis |-> x_axis,
                          y_axis |-> y_axis, chart_title |-> wd.chart_title],
                  chart_title |-> IF wd.chart_title = ""
                                  THEN [y |-> y_axis, by |-> x_axis]
                                  ELSE [text |-> wd.chart_title]]
        ELSE [controls |-> {"chart_type"},
              default_index |-> idx,
              onecol_warning |-> TRUE,
              wd |-> [NoWidgets EXCEPT !.chart_type = selected_chart],
              chart_title |-> None]

\* --------------------------------------------- lines 143-158: chart rendering
\* Lines 145-154: the plotly express call made for the selected chart type.
PxCall(selected_chart, x_axis, y_axis, chart_title) ==
    IF selected_chart = "pie"
    THEN [fn |-> "pie", names |-> x_axis, values |-> y_axis, title |-> chart_title]
    ELSE [fn |-> selected_chart, x |-> x_axis, y |-> y_axis, title |-> chart_title]

\* Lines 143-158.  render_ok: the plotly calls did not raise.
ChartRendering(ss, cc, render_ok) ==
    IF TwoDimensional(ss.cleaned_df)
    THEN [px_call |-> PxCall(cc.wd.chart_type, cc.wd.x_axis, cc.wd.y_axis, cc.chart_title),
          chart_error |-> ~render_ok]
    ELSE [px_call |-> None, chart_error |-> FALSE]

\* ------------------------------------------ lines 163-183: Get AI Suggestions
\* Variant of InsightResult: a failed request leaves nothing to display.
InsightResult_Silent(resp) ==
    IF resp.t = "raise" THEN "" ELSE resp.content

\* Line 181 / line 183: the content returned, or the error description.
InsightResult(resp) ==
    IF resp.t = "raise" THEN "An error occurred: APIError" ELSE resp.content

\* Variant of InsightHandler: a request that raised is issued a second time.
InsightHandler_Retry(ss, clicked, resp) ==
    IF ~clicked THEN [ss |-> ss, calls |-> <<>>]
    ELSE [ss |-> [ss EXCEPT !.ai_suggestions = InsightResult(resp),
                            !.suggestions_for = ss.cleaned_df],
          calls |-> IF resp.t = "raise" THEN <<"insight", "insight">>
                    ELSE <<"insight">>]

\* Lines 163-183.  clicked: the button returned True in this pass.
InsightHandler(ss, clicked, resp) ==
    IF ~clicked THEN [ss |-> ss, calls |-> <<>>]
    ELSE [ss |-> [ss EXCEPT !.ai_suggestions = InsightResult(resp),
                            !.suggestions_for = ss.cleaned_df],
          calls |-> <<"insight">>]

\* ------------------------------------------------ lines 107-187: Main App UI
MainUI(ss, wd, insight_clicked, insight_resp, render_ok) ==
    IF ss.cleaned_df = None
    THEN [ss |-> ss, wd |-> NoWidgets, calls |-> <<>>,
          info |-> TRUE, controls |-> {}, default_index |-> -1,
          onecol_warning |-> FALSE, px_call |-> None, chart_error |-> FALSE,
          insight_button |-> FALSE, shown_insight |-> ""]
    ELSE LET cc == ChartControls(ss, wd)
             cr == ChartRendering(ss, cc, render_ok)
             ih == InsightHandler(ss, insight_clicked, insight_resp)
         IN  [ss |-> ih.ss, wd |-> cc.wd, calls |-> ih.calls,
              info |-> FALSE, controls |-> cc.controls,
              default_index |-> cc.default_index,
              onecol_warning |-> cc.onecol_warning,
              px_call |-> cr.px_call, chart_error |-> cr.chart_error,
              insight_button |-> TRUE,
              shown_insight |-> ih.ss.ai_suggestions]

\* ------------------------------------------------------- one run of the script
\* The plotly calls are an input of a pass only when the pass reaches them.
RenderOutcomes(df) ==
    IF df # None /\ TwoDimensional(df) THEN BOOLEAN ELSE {TRUE}

\* What a pass records of itself: the button that returned True in it ("" when
\* none did), the service calls it issued, in order, the outcome of the
\* service call it consumed (None when it made none), and what it put on the
\* page.
View(button, ch, ui, clean_resp, insight_resp) ==
    [button |-> button,
     calls |-> ch.calls \o ui.calls,
     response |-> IF ch.calls # <<>> THEN clean_resp
                  ELSE IF ui.calls # <<>> THEN insight_resp ELSE None,
     sidebar_warning |-> ch.sidebar_warning,
     clean_error |-> ch.clean_error,
     info |-> ui.info,
     controls |-> ui.controls,
     default_index |-> ui.default_index,
     onecol_warning |-> ui.onecol_warning,
     px_call |-> ui.px_call,
     chart_error |-> ui.chart_error,
     insight_button |-> ui.insight_button,
     shown_insight |-> ui.shown_insight]

\* The whole script for one interaction: lines 72-102 then lines 107-187.
\* button: the button that returned True in this pass, "" when none did.
Pass(button, raw, wd, clean_resp, insight_resp) ==
    LET ch == CleanHandler(session_state, raw, button = "clean", clean_resp)
    IN  \E render_ok \in RenderOutcomes(ch.ss.cleaned_df) :
            LET ui == MainUI(ch.ss, wd, button = "insight", insight_resp, render_ok)
            IN  /\ session_state' = ui.ss
                /\ raw_data' = raw
                /\ widgets' = ui.wd
                /\ out' = View(button, ch, ui, clean_resp, insight_resp)

NoResponse == [t |-> "raise"]

\* Lines 37-42 and the first pass: nothing clicked, nothing typed.
Init ==
    /\ session_state = [cleaned_df |-> None, ai_suggestions |-> "",
                        suggested_chart |-> "bar", suggestions_for |-> None]
    /\ raw_data = ""
    /\ widgets = NoWidgets
    /\ out = [button |-> "", calls |-> <<>>, response |-> None,
              sidebar_warning |-> FALSE, clean_error |-> "", info |-> TRUE,
              controls |-> {}, default_index |-> -1, onecol_warning |-> FALSE,
              px_call |-> None, chart_error |-> FALSE, insight_button |-> FALSE,
              shown_insight |-> ""]

\* Lines 60-61: "Load Sample Data".
LoadSample ==
    Pass("load_sample", SAMPLE_DATA, widgets, NoResponse, NoResponse)

\* Lines 65-70: the user edits the text area.
EditText ==
    \E t \in TypedTexts :
        /\ t # raw_data
        /\ Pass("", t, widgets, NoResponse, NoResponse)

\* Line 72: "Clean & Visualize Data".  The service answers only if it is called.
CleanClick ==
    \E resp \in (IF raw_data = "" THEN {NoResponse} ELSE CleanResponses) :
        Pass("clean", raw_data, widgets, resp, NoResponse)

\* Line 163: "Get AI Suggestions" (offered only while a table is shown).
InsightClick ==
    /\ out.insight_button
    /\ \E resp \in InsightResponses :
           Pass("insight", raw_data, widgets, NoResponse, resp)

\* Line 128: the user picks a chart type.
SelectChart ==
    /\ "chart_type" \in out.controls
    /\ \E c \in Range(chart_options) :
           /\ c # widgets.chart_type
           /\ Pass("", raw_data, [widgets EXCEPT !.chart_type = c],
                   NoResponse, NoResponse)

\* Lines 134-135: the user picks the x or the y column.
SelectAxis ==
    /\ "x_axis" \in out.controls
    /\ \E x, y \in Range(session_state.cleaned_df.columns) :
           /\ <<x, y>> # <<widgets.x_axis, widgets.y_axis>>
           /\ Pass("", raw_data, [widgets EXCEPT !.x_axis = x, !.y_axis = y],
                   NoResponse, NoResponse)

\* Line 137: the user types a title, or clears it.
EditTitle ==
    /\ "chart_title" \in out.controls
    /\ \E t \in TypedTitles \cup {""} :
           /\ t # widgets.chart_title
           /\ Pass("", raw_data, [widgets EXCEPT !.chart_title = t],
                   NoResponse, NoResponse)

Next ==
    \/ LoadSample
    \/ EditText
    \/ CleanClick
    \/ InsightClick
    \/ SelectChart
    \/ SelectAxis
    \/ EditTitle

Spec == Init /\ [][Next]_vars

\* ======================================================================
\* Properties
\* ======================================================================
\* The three fields of the session the properties speak of.
Fields(ss) == <<ss.cleaned_df, ss.suggested_chart, ss.ai_suggestions>>

DefaultFields == <<None, "bar", "">>

\* The last pass issued the cleaning call; out.response is what came back.
CleaningCalled == out.calls = <<"clean">>

\* The cleaning step fails on response r: the call raised, the content is not
\* a JSON object, the csv field is missing or does not parse as a table, or the
\* chart field is missing or is no string.
CleaningFails(r) ==
    \/ r.t # "object"
    \/ r.csv = Missing
    \/ ~read_csv(r.csv).ok
    \/ r.chart = Missing
    \/ r.chart.t # "string"

\* C1: after a click of "Clean & Visualize Data" with non-empty input whose
\* cleaning step fails at any point, an error is shown and cleaned_df is None,
\* also when the failure came after line 97 had stored the new table.
C1_FailedCleaningClearsTable ==
    (CleaningCalled /\ CleaningFails(out.response))
        => (out.clean_error # "" /\ session_state.cleaned_df = None)

\* C1 witness: the chart key was missing, so line 98 failed after line 97 had
\* stored the new table, and a table had been held before (suggestions were
\* requested on it).
C1_Witness ==
    /\ CleaningCalled
    /\ out.clean_error = "KeyError: 'chart'"
    /\ session_state.suggestions_for # None
    /\ session_state.cleaned_df = None

\* C2: a step that is a successful cleaning request ends, from any prior
\* state, with cleaned_df the table parsed from the response's csv field,
\* suggested_chart the lower-cased chart field of the same response and
\* ai_suggestions empty; a failed one ends with neither of the two taken from
\* the response (the table is None, the chart tag is the one from before).
C2_SuccessfulCleaningReplacesBoth ==
    [][(out'.calls = <<"clean">>) =>
          IF CleaningFails(out'.response)
          THEN /\ session_state'.cleaned_df = None
               /\ session_state'.suggested_chart = session_state.suggested_chart
          ELSE /\ out'.clean_error = ""
               /\ session_state'.cleaned_df = read_csv(out'.response.csv).val
               /\ session_state'.suggested_chart = LowerStr(out'.response.chart.s)
               /\ session_state'.ai_suggestions = ""]_vars

\* C2 witness: a successful cleaning whose chart tag had to be lower-cased.
C2_Witness ==
    /\ CleaningCalled
    /\ ~CleaningFails(out.response)
    /\ out.response.chart = Str("PIE")
    /\ session_state.suggested_chart = "pie"
    /\ session_state.cleaned_df # None

\* The chart tag of response r, lower-cased, is none of the five chart types.
UnknownChart(r) ==
    /\ ~CleaningFails(r)
    /\ LowerStr(r.chart.s) \notin {"bar", "line", "scatter", "pie", "area"}

\* C3: a response with a parsable csv and a chart tag that, lower-cased, is
\* none of the five types is no error: no error is shown, cleaned_df is the
\* parsed table, and the chart type offered by default is "bar", the first
\* entry of chart_options.
C3_UnknownChartFallsBackToBar ==
    (CleaningCalled /\ UnknownChart(out.response))
        => /\ out.clean_error = ""
           /\ session_state.cleaned_df = read_csv(out.response.csv).val
           /\ "chart_type" \in out.controls
           /\ out.default_index = 0
           /\ chart_options[out.default_index + 1] = "bar"

\* C3 witness: the service answered "Donut" and the table was stored.
C3_Witness ==
    /\ CleaningCalled
    /\ UnknownChart(out.response)
    /\ session_state.suggested_chart = "donut"
    /\ session_state.cleaned_df # None

\* The last pass issued the insight call; out.response is what came back.
InsightCalled == out.calls = <<"insight">>

\* C4 as claimed: after every click of "Get AI Suggestions" ai_suggestions is
\* non-empty.
C4_Original_InsightNeverEmpty ==
    InsightCalled => session_state.ai_suggestions # ""

\* C4 amended: after every click of "Get AI Suggestions" ai_suggestions is the
\* content the service returned (empty when that content is empty) or, when
\* the call raised, a non-empty error description; cleaned_df and
\* suggested_chart are unchanged.
C4_InsightStoresContentOrError ==
    [][(out'.calls = <<"insight">>) =>
          /\ IF out'.response.t = "raise"
             THEN /\ session_state'.ai_suggestions = "An error occurred: APIError"
                  /\ session_state'.ai_suggestions # ""
             ELSE session_state'.ai_suggestions = out'.response.content
          /\ session_state'.cleaned_df = session_state.cleaned_df
          /\ session_state'.suggested_chart = session_state.suggested_chart]_vars

\* C4 witness: the insight call raised and its description is what is shown.
C4_Witness ==
    /\ InsightCalled
    /\ out.response.t = "raise"
    /\ session_state.ai_suggestions = "An error occurred: APIError"
    /\ out.shown_insight = session_state.ai_suggestions

\* C5: a click of "Clean & Visualize Data" while the text area is empty makes
\* no service call, shows the warning and leaves the session as it was.
C5_EmptyInputChangesNothing ==
    [][(out'.button = "clean" /\ raw_data = "") =>
          /\ out'.calls = <<>>
          /\ out'.sidebar_warning
          /\ out'.clean_error = ""
          /\ session_state' = session_state]_vars

\* C5 witness: the button was clicked on an empty text area, first with no
\* table held.
C5_Witness ==
    /\ out.button = "clean"
    /\ raw_data = ""
    /\ out.sidebar_warning
    /\ session_state.cleaned_df = None

\* C6 as claimed: in every pass with a stored table of fewer than 2 columns no
\* chart control at all (chart type, x axis, y axis, title) is offered, the
\* warning is shown and no render call is made.
C6_OneColumnDisablesConfiguration ==
    (session_state.cleaned_df # None /\ Len(session_state.cleaned_df.columns) < 2)
        => /\ out.controls = {}
           /\ out.onecol_warning
           /\ out.px_call = None

\* C7: a pass issues at most one service call: never both calls, never a call
\* again after a failure, and none unless one of the two buttons was clicked.
C7_AtMostOneCallPerPass ==
    /\ Len(out.calls) <= 1
    /\ out.calls # <<>> => out.calls = <<out.button>>
    /\ out.button \notin {"clean", "insight"} => out.calls = <<>>

\* C7 witness: an insight call that raised, and was issued once.
C7_Witness ==
    /\ out.button = "insight"
    /\ out.response.t = "raise"
    /\ out.calls = <<"insight">>

\* The last pass ended in a failed cleaning request, or in a failed render.
CleaningFailed == CleaningCalled /\ out.clean_error # ""

\* C8 as claimed: a step that is a failed cleaning request or a failed chart
\* render ends with the three fields as they were before it, or all at their
\* defaults.  (A render that fails in a pass whose handler called the service
\* is left out: there the handler, not the failure, changed the fields.)
C8_Original_FailureLeavesOldOrDefault ==
    [][(CleaningFailed' \/ (out'.chart_error /\ out'.calls = <<>>)) =>
          \/ Fields(session_state') = Fields(session_state)
          \/ Fields(session_state') = DefaultFields]_vars

\* C8 amended: a failed cleaning request ends with cleaned_df None and with
\* suggested_chart and ai_suggestions as they were before it (a mix when they
\* were not at their defaults); a failed chart render in a pass that called no
\* service ends with the three fields as they were.
C8_FailureClearsTableOnly ==
    [][/\ CleaningFailed' =>
             /\ session_state'.cleaned_df = None
             /\ session_state'.suggested_chart = session_state.suggested_chart
             /\ session_state'.ai_suggestions = session_state.ai_suggestions
       /\ (out'.chart_error /\ out'.calls = <<>>) =>
             Fields(session_state') = Fields(session_state)]_vars

\* C8 witness: after a failed cleaning the table is gone while the chart tag
\* and the suggestions of the table before it are still there.
C8_Witness ==
    /\ CleaningFailed
    /\ session_state.cleaned_df = None
    /\ session_state.suggested_chart # "bar"
    /\ session_state.ai_suggestions # ""

\* C9 as claimed: suggested_chart is always one of the five chart types.
C9_Original_SuggestedChartInEnum ==
    session_state.suggested_chart \in {"bar", "line", "scatter", "pie", "area"}

\* C9 amended: suggested_chart is "bar" or the lower-cased chart tag of a
\* cleaning response, which need not be one of the five types; the chart type
\* the radio offers by default is always one of the five, and is
\* suggested_chart whenever that is one of them.
C9_SuggestedChartIsLoweredTag ==
    /\ session_state.suggested_chart \in {"bar"} \cup {LowerStr(c) : c \in ChartStrings}
    /\ "chart_type" \in out.controls =>
          /\ out.default_index \in 0..4
          /\ session_state.suggested_chart \in {"bar", "line", "scatter", "pie", "area"}
                => chart_options[out.default_index + 1] = session_state.suggested_chart

\* C9 witness: an unknown tag is stored while the radio is on the page.
C9_Witness ==
    /\ session_state.suggested_chart = "donut"
    /\ "chart_type" \in out.controls
    /\ out.default_index = 0

\* C10: whenever a table is held and ai_suggestions is non-empty (the only
\* states in which suggestions are displayed), the suggestions are the result
\* of a request issued on the table now held.
C10_SuggestionsBelongToTable ==
    (session_state.cleaned_df # None /\ session_state.ai_suggestions # "")
        => /\ session_state.suggestions_for = session_state.cleaned_df
           /\ out.shown_insight = session_state.ai_suggestions

\* C10 witness: suggestions are displayed beside the table in a pass other
\* than the one that requested them.
C10_Witness ==
    /\ session_state.cleaned_df # None
    /\ out.shown_insight # ""
    /\ out.button = "clean"
    /\ out.sidebar_warning

====
